---- MODULE Spec2Model ----
(***************************************************************************)
(* A model of the Orca Slicer config manager (tealblu/fiwami):             *)
(*   src/ui/orca_slicer_config_manager.py   the application object          *)
(*   src/watch/dog.py                        FileWatchdog                   *)
(*   src/utils/file_handler.py               FileHandler.copy_file          *)
(*                                                                         *)
(* A path is a sequence of names (os.sep-separated components); a name is  *)
(* a string.  The id "file_<n>" is modelled by the number n: the format    *)
(* f"file_{n}" is injective and str(k) on load returns the key unchanged.  *)
(* A file's content is a number, 0 standing for "no such file".            *)
(***************************************************************************)
EXTENDS Integers, Sequences, FiniteSets, TLC

VARIABLES
    managed_files,        \* self.managed_files: insertion-ordered dict, a sequence of [id, path]
    file_counter,         \* self.file_counter
    file_tree,            \* iids shown in self.file_tree
    backup_dir,           \* self.backup_dir ("" = unset)
    auto_backup_enabled,  \* self.auto_backup_enabled
    file_watchdogs,       \* keys of self.file_watchdogs (parent directories)
    observers,            \* per directory, the number of started Observers (open watches)
    data_file,            \* the content of DATA_FILE on disk
    phase,                \* "running" | "dialog" (detection results, modal) | "quit"
    found_files,          \* the items of the detection-results dialog
    fs,                   \* the tracked-file universe on disk: path -> content
    snaps,                \* the backup root: clock second -> snapshot directory
    clock,                \* datetime.now() at second resolution
    ev,                   \* the notification handler (on_event) in flight
    last                  \* what the last operation did (observation only)

vars == <<managed_files, file_counter, file_tree, backup_dir, auto_backup_enabled,
          file_watchdogs, observers, data_file, phase, found_files, fs, snaps,
          clock, ev, last>>

(***************************************************************************)
(* Bounds of the model.                                                    *)
(***************************************************************************)
MaxCounter == 3
MaxClock == 2
MaxWatched == 2
MaxBackedUp == 2
MaxContent == 2

\* the depths beyond which os.walk stops descending
DepthCapSearch == 3
DepthCapApp == 5

(***************************************************************************)
(* The directory tree the application runs on.                             *)
(***************************************************************************)
Home == <<"home">>
ConfigDir == <<"home", ".config">>
AppDir == <<"home", ".config", "OrcaSlicer">>
UserDir == <<"home", ".config", "OrcaSlicer", "user">>
SubDir == <<"home", ".config", "OrcaSlicer", "user", "sub">>
BackupRoot == "/backup"

FileA == UserDir \o <<"a.json">>
FileB == UserDir \o <<"b.json">>
FileSubA == SubDir \o <<"a.json">>

Paths == {FileA, FileB, FileSubA}

\* entries of the backup root that no capture made
ExtraNames == {"notes", "ConfigBackup_old"}
ExtraPath(n) == <<"backup", n>>
ExtraPaths == {ExtraPath(n) : n \in ExtraNames}
TreeDirs == {Home, ConfigDir, AppDir, UserDir, SubDir}
FNames == {"a.json", "b.json"}
NoPath == <<>>

\* os.path.dirname, os.path.basename
dirname(p) == SubSeq(p, 1, Len(p) - 1)
basename(p) == p[Len(p)]

WatchDirs == {dirname(p) : p \in Paths}

(***************************************************************************)
(* dict helpers: managed_files is a sequence of [id, path] in insertion    *)
(* order, as a Python dict keeps it.                                       *)
(***************************************************************************)
Keys(d) == {d[i].id : i \in 1..Len(d)}
Values(d) == {d[i].path : i \in 1..Len(d)}
IndexOf(d, k) == CHOOSE i \in 1..Len(d) : d[i].id = k
Get(d, k) == d[IndexOf(d, k)].path

\* d[k] = v: a present key keeps its position, a new key is appended
DictSet(d, k, v) ==
    IF k \in Keys(d)
    THEN [d EXCEPT ![IndexOf(d, k)] = [id |-> k, path |-> v]]
    ELSE Append(d, [id |-> k, path |-> v])

\* del d[k] (k present)
DictDel(d, k) ==
    LET i == IndexOf(d, k)
    IN  SubSeq(d, 1, i - 1) \o SubSeq(d, i + 1, Len(d))

ValueSeq(d) == [i \in 1..Len(d) |-> d[i].path]

\* A dict iterator walks the entry array by position; del leaves a hole the
\* iterator skips, so an iterator past the deleted entry keeps its place
\* among the entries that remain.
DictDelUnderIteration(it, d, k) ==
    IF it.active /\ IndexOf(d, k) < it.pos
    THEN [it EXCEPT !.pos = @ - 1]
    ELSE it

(***************************************************************************)
(* Observation record.                                                     *)
(***************************************************************************)
NoOp == [op |-> "none", outcome |-> "", path |-> NoPath, id |-> -1,
         files |-> <<>>, copied |-> <<>>, count |-> 0, failed |-> {},
         sel |-> 0, calls |-> 0, had_watch |-> FALSE, quiet |-> FALSE,
         mkdir_fails |-> FALSE, fail_at |-> 0, fail_in |-> {},
         cfg |-> [app_name |-> "", subdirectories |-> <<>>, file_patterns |-> <<>>,
                  exclude_patterns |-> <<>>, search_dirs |-> <<>>],
         visited |-> <<>>, candidates |-> {}, dst |-> <<>>, overwrite |-> FALSE,
         before |-> <<>>]

(***************************************************************************)
(* Persistence: save_data / load_data.                                     *)
(***************************************************************************)
NoData == [kind |-> "missing", managed_files |-> <<>>, file_counter |-> 0,
           backup_dir |-> "", auto_backup_enabled |-> TRUE]

save_data(mf, fc, bd, ab) ==
    [kind |-> "ok", managed_files |-> mf, file_counter |-> fc,
     backup_dir |-> bd, auto_backup_enabled |-> ab]

\* What the data file can hold.  "ok": what save_data wrote.  "missing": no
\* file.  "unparseable": not JSON.  "bad_managed_files": managed_files is a
\* list, so .items() raises.  "bad_detection_config": detection_config is a
\* number, so dict.update raises.  "number_for_flag": auto_backup_enabled
\* is the number 0, which raises nothing.  In the last three the other
\* fields are as saved.
DataKinds == {"ok", "missing", "unparseable", "bad_managed_files",
              "bad_detection_config", "number_for_flag"}

\* mutant: the counter is not read back but set to the number of entries
\* (the default of data.get in line 334)
load_data_recount(df) ==
    CASE df.kind \in {"ok", "number_for_flag"} ->
             [managed_files |-> df.managed_files,
              file_counter |-> Len(df.managed_files),
              backup_dir |-> df.backup_dir,
              auto_backup_enabled |-> (df.kind = "ok" /\ df.auto_backup_enabled)]
      [] OTHER ->
             [managed_files |-> <<>>, file_counter |-> 0,
              backup_dir |-> "", auto_backup_enabled |-> TRUE]

\* the state load_data leaves, starting from the defaults __init__ has set:
\* the assignments of lines 333-336 in order, then line 339-340; the handler
\* of line 342 resets three fields and leaves file_counter as it is
load_data(df) ==
    CASE df.kind = "ok" ->
             [managed_files |-> df.managed_files, file_counter |-> df.file_counter,
              backup_dir |-> df.backup_dir,
              auto_backup_enabled |-> df.auto_backup_enabled]
      [] df.kind = "number_for_flag" ->
             [managed_files |-> df.managed_files, file_counter |-> df.file_counter,
              backup_dir |-> df.backup_dir, auto_backup_enabled |-> FALSE]
      [] df.kind = "bad_detection_config" ->
             [managed_files |-> <<>>, file_counter |-> df.file_counter,
              backup_dir |-> "", auto_backup_enabled |-> TRUE]
      [] OTHER ->
             [managed_files |-> <<>>, file_counter |-> 0,
              backup_dir |-> "", auto_backup_enabled |-> TRUE]

(***************************************************************************)
(* ensure_watcher_for_file.  ok is the set of directories on which         *)
(* create_watchdog(...).start() succeeds; elsewhere it raises, which is    *)
(* printed and leaves no entry.  A state is [fw, obs].                     *)
(***************************************************************************)
\* mutant: the test `parent_dir in self.file_watchdogs` left out
ensure_watcher_unguarded(w, file_path, ok) ==
    LET parent_dir == dirname(file_path)
    IN  IF parent_dir \in ok
        THEN [fw |-> w.fw \cup {parent_dir},
              obs |-> [w.obs EXCEPT ![parent_dir] = @ + 1]]
        ELSE w

ensure_watcher_for_file(w, file_path, ok) ==
    LET parent_dir == dirname(file_path)
    IN  IF parent_dir \in w.fw THEN w
        ELSE IF parent_dir \in ok
             THEN [fw |-> w.fw \cup {parent_dir},
                   obs |-> [w.obs EXCEPT ![parent_dir] = @ + 1]]
             ELSE w

RECURSIVE EnsureAll(_, _, _)
EnsureAll(w, paths, ok) ==
    IF paths = <<>> THEN w
    ELSE EnsureAll(ensure_watcher_for_file(w, Head(paths), ok), Tail(paths), ok)

(***************************************************************************)
(* Strings as the scan reads them: a name's characters, str.lower(), the   *)
(* substring test `x in y`, and the glob match of pathlib's Path.match on  *)
(* a file name.                                                            *)
(***************************************************************************)
Chars(n) ==
    CASE n = "home" -> <<"h", "o", "m", "e">>
      [] n = ".config" -> <<".", "c", "o", "n", "f", "i", "g">>
      [] n = "OrcaSlicer" -> <<"O", "r", "c", "a", "S", "l", "i", "c", "e", "r">>
      [] n = "user" -> <<"u", "s", "e", "r">>
      [] n = "sub" -> <<"s", "u", "b">>
      [] n = "a.json" -> <<"a", ".", "j", "s", "o", "n">>
      [] n = "b.json" -> <<"b", ".", "j", "s", "o", "n">>
      [] n = "*.json" -> <<"*", ".", "j", "s", "o", "n">>
      [] n = "*.ini" -> <<"*", ".", "i", "n", "i">>
      [] n = "*.conf" -> <<"*", ".", "c", "o", "n", "f">>
      [] n = "cache" -> <<"c", "a", "c", "h", "e">>
      [] n = "temp" -> <<"t", "e", "m", "p">>
      [] n = "log" -> <<"l", "o", "g">>
      [] n = "opt" -> <<"o", "p", "t">>
      [] n = "AppX" -> <<"A", "p", "p", "X">>
      [] n = "other" -> <<"o", "t", "h", "e", "r">>
      [] n = "Cache" -> <<"C", "a", "c", "h", "e">>
      [] n = "d" -> <<"d">>
      [] n = "s.json" -> <<"s", ".", "j", "s", "o", "n">>
      [] n = "s.txt" -> <<"s", ".", "t", "x", "t">>
      [] n = "*.txt" -> <<"*", ".", "t", "x", "t">>
      [] n = " " -> <<" ">>
      [] n = "notes" -> <<"n", "o", "t", "e", "s">>
      [] n = "ConfigBackup_" ->
             <<"C", "o", "n", "f", "i", "g", "B", "a", "c", "k", "u", "p", "_">>
      [] n = "ConfigBackup_old" ->
             <<"C", "o", "n", "f", "i", "g", "B", "a", "c", "k", "u", "p", "_",
               "o", "l", "d">>
      [] n = "" -> <<>>

\* the names the table knows
Names ==
    {"home", ".config", "OrcaSlicer", "user", "sub", "a.json", "b.json", "*.json",
     "*.ini", "*.conf", "cache", "temp", "log", "opt", "AppX", "other", "Cache",
     "d", "s.json", "s.txt", "*.txt", " ", "", "notes", "ConfigBackup_",
     "ConfigBackup_old"}

\* the name spelled by the characters s
NameOf(s) == CHOOSE n \in Names : Chars(n) = s

LowerChar(c) ==
    CASE c = "O" -> "o"
      [] c = "S" -> "s"
      [] c = "A" -> "a"
      [] c = "X" -> "x"
      [] c = "C" -> "c"
      [] OTHER -> c

Lower(s) == [i \in 1..Len(s) |-> LowerChar(s[i])]

\* str.strip() of blanks
RECURSIVE Strip(_)
Strip(s) ==
    IF s = <<>> THEN s
    ELSE IF Head(s) = " " THEN Strip(Tail(s))
    ELSE IF s[Len(s)] = " " THEN Strip(SubSeq(s, 1, Len(s) - 1))
    ELSE s

\* x in y, for strings
Contains(y, x) ==
    \E i \in 0..(Len(y) - Len(x)) : SubSeq(y, i + 1, i + Len(x)) = x

\* the directory's path as a string: os.sep before every component
RECURSIVE PathString(_)
PathString(p) ==
    IF p = <<>> THEN <<>>
    ELSE PathString(SubSeq(p, 1, Len(p) - 1)) \o <<"/">> \o Chars(p[Len(p)])

\* os.path.join(a, b) of two relative names (an empty a adds no separator)
JoinNames(a, b) == IF a = "" THEN Chars(b) ELSE Chars(a) \o <<"/">> \o Chars(b)

\* fnmatch of one name against a pattern of literals and "*"
RECURSIVE GlobMatch(_, _)
GlobMatch(pat, s) ==
    IF pat = <<>> THEN s = <<>>
    ELSE IF Head(pat) = "*"
         THEN \E k \in 0..Len(s) : GlobMatch(Tail(pat), SubSeq(s, k + 1, Len(s)))
         ELSE s # <<>> /\ Head(s) = Head(pat) /\ GlobMatch(Tail(pat), Tail(s))

\* a set as a sequence, in the order the listing happens to give
RECURSIVE SetToSeq(_)
SetToSeq(S) ==
    IF S = {} THEN <<>>
    ELSE LET x == CHOOSE y \in S : TRUE IN <<x>> \o SetToSeq(S \ {x})

RECURSIVE FlattenSeq(_)
FlattenSeq(ss) == IF ss = <<>> THEN <<>> ELSE Head(ss) \o FlattenSeq(Tail(ss))

(***************************************************************************)
(* auto_detect_configs: os.walk(base_dir, topdown=True) with the in-place  *)
(* pruning of dirs.  tree = [dirs, files] (sets of paths), cfg the         *)
(* detection config, tracked the values of managed_files.                  *)
(***************************************************************************)
detection_config ==
    [app_name |-> "OrcaSlicer",
     subdirectories |-> <<"user">>,
     file_patterns |-> <<"*.json", "*.ini", "*.conf">>,
     exclude_patterns |-> <<"cache", "temp", "log">>,
     search_dirs |-> <<ConfigDir, Home>>]

SeqRange(s) == {s[i] : i \in 1..Len(s)}

\* mutant: the directory name is not lower-cased
ExcludedCaseSensitive(cfg, d) ==
    \E excl \in SeqRange(cfg.exclude_patterns) :
        Contains(Chars(basename(d)), Chars(excl))

Excluded(cfg, d) ==
    \E excl \in SeqRange(cfg.exclude_patterns) :
        Contains(Lower(Chars(basename(d))), Chars(excl))

PathMatchesApp(cfg, root) ==
    \E subdir \in SeqRange(cfg.subdirectories) :
        Contains(Lower(PathString(root)), Lower(JoinNames(cfg.app_name, subdir)))

\* mutant: the file patterns are not consulted
FileMatchesAnyName(cfg, filename) == filename \in Names

FileMatches(cfg, filename) ==
    \E pattern \in SeqRange(cfg.file_patterns) :
        GlobMatch(Chars(pattern), Chars(filename))

Depth(root, base_dir) == Len(root) - Len(base_dir)

\* mutant: no depth cap outside the app directories
WalkDirsNoSearchCap(root, base_dir, tree, cfg) ==
    LET kept == {d \in tree.dirs : dirname(d) = root /\ ~Excluded(cfg, d)}
    IN  IF PathMatchesApp(cfg, root)
        THEN IF Depth(root, base_dir) > DepthCapApp THEN {} ELSE kept
        ELSE kept

\* mutant: no depth cap inside a matched app directory
WalkDirsNoAppCap(root, base_dir, tree, cfg) ==
    LET kept == {d \in tree.dirs : dirname(d) = root /\ ~Excluded(cfg, d)}
    IN  IF PathMatchesApp(cfg, root) THEN kept
        ELSE IF Depth(root, base_dir) > DepthCapSearch THEN {} ELSE kept

\* dirs as os.walk finds it after the body of the loop has run at root: the
\* subdirectories it goes on to visit
WalkDirs(root, base_dir, tree, cfg) ==
    LET kept == {d \in tree.dirs : dirname(d) = root /\ ~Excluded(cfg, d)}
    IN  IF PathMatchesApp(cfg, root)
        THEN IF Depth(root, base_dir) > DepthCapApp THEN {} ELSE kept
        ELSE IF Depth(root, base_dir) > DepthCapSearch THEN {} ELSE kept

RECURSIVE Walk(_, _, _, _, _)
Walk(root, base_dir, tree, cfg, tracked) ==
    LET hit == PathMatchesApp(cfg, root)
        here == IF hit
                THEN SelectSeq(SetToSeq({f \in tree.files : dirname(f) = root}),
                               LAMBDA f : FileMatches(cfg, basename(f)) /\ f \notin tracked)
                ELSE <<>>
        order == SetToSeq(WalkDirs(root, base_dir, tree, cfg))
    IN  here \o FlattenSeq([i \in 1..Len(order) |->
                               Walk(order[i], base_dir, tree, cfg, tracked)])

\* the directories os.walk yields, in order
RECURSIVE Visit(_, _, _, _)
Visit(root, base_dir, tree, cfg) ==
    LET order == SetToSeq(WalkDirs(root, base_dir, tree, cfg))
    IN  <<root>> \o FlattenSeq([i \in 1..Len(order) |->
                                   Visit(order[i], base_dir, tree, cfg)])

auto_detect_configs(tree, cfg, tracked) ==
    IF cfg.app_name = "" THEN <<>>
    ELSE FlattenSeq([i \in 1..Len(cfg.search_dirs) |->
                        Walk(cfg.search_dirs[i], cfg.search_dirs[i], tree, cfg, tracked)])

\* the tree as it is on disk
DiskTree(f) == [dirs |-> TreeDirs, files |-> {p \in Paths : f[p] # 0}]

\* the scan under the default detection config, tabulated by the files
\* present and the paths tracked (the comparison makes TLC compute the
\* table once instead of at every use)
ScanTable ==
    LET table == [present \in SUBSET Paths |-> [tracked \in SUBSET Paths |->
                    auto_detect_configs([dirs |-> TreeDirs, files |-> present],
                                        detection_config, tracked)]]
    IN  IF table = table THEN table ELSE table

(***************************************************************************)
(* The scan with its inputs free: the directory tree below /opt, and what  *)
(* the three entry fields of the window hold when "Auto-Detect" is         *)
(* pressed.                                                                *)
(***************************************************************************)
MaxScanDepth == 7
MaxPresent == 3

ScanRoot == <<"opt">>
ScanUser == <<"opt", "AppX", "user">>

\* a matching file in the directory at depth k below ScanRoot, inside the
\* app directory
DeepFile(k) == ScanUser \o [i \in 1..(k - 2) |-> "d"] \o <<"s.json">>

TextFile == ScanUser \o <<"s.txt">>
OtherFile == <<"opt", "other", "s.json">>
CachedFile == ScanUser \o <<"Cache", "s.json">>
CachedApp == <<"opt", "Cache", "AppX", "user", "s.json">>

\* a matching file in an app directory whose AppX lies at depth k + 1, below
\* k directories that are no app directories
FarFile(k) == ScanRoot \o [i \in 1..k |-> "d"] \o <<"AppX", "user", "s.json">>
ScanFiles ==
    {DeepFile(k) : k \in {2} \cup 4..MaxScanDepth}
        \cup {TextFile, OtherFile, CachedFile, CachedApp, FarFile(2), FarFile(3)}

ScanDirs == UNION {{SubSeq(f, 1, n) : n \in 1..(Len(f) - 1)} : f \in ScanFiles}

ScanTree(f) == [dirs |-> ScanDirs, files |-> {p \in ScanFiles : f[p] # 0}]

\* what the entry fields can hold: [app_name, patterns, excludes], the two
\* lists already split at the commas
ScanInputs ==
    {ui \in [app_name : {"AppX", "", " "},
             patterns : {<<"*.json">>, <<"*.json", "*.txt">>},
             excludes : {<<>>, <<"cache">>, <<"Cache">>}] :
        /\ ui.app_name # "AppX" => (ui.patterns = <<"*.json">> /\ ui.excludes = <<"cache">>)
        /\ Len(ui.patterns) > 1 => ui.excludes = <<>>}

\* lines 179-181: the detection config updated from the entry fields
ReadUI(cfg, ui) ==
    [cfg EXCEPT
        !.app_name = NameOf(Strip(Chars(ui.app_name))),
        !.file_patterns =
            SelectSeq([i \in 1..Len(ui.patterns) |-> NameOf(Strip(Chars(ui.patterns[i])))],
                      LAMBDA p : p # ""),
        !.exclude_patterns =
            SelectSeq([i \in 1..Len(ui.excludes) |->
                          NameOf(Lower(Strip(Chars(ui.excludes[i]))))],
                      LAMBDA p : p # "")]

\* mutant: the test of app_name left out
ScanRunUnchecked(tree, cfg, tracked) ==
    LET found == FlattenSeq([i \in 1..Len(cfg.search_dirs) |->
                    Walk(cfg.search_dirs[i], cfg.search_dirs[i], tree, cfg, tracked)])
        visited == FlattenSeq([i \in 1..Len(cfg.search_dirs) |->
                    Visit(cfg.search_dirs[i], cfg.search_dirs[i], tree, cfg)])
    IN  [outcome |-> IF found = <<>> THEN "NoneFound" ELSE "Found",
         found |-> found, visited |-> visited]

\* lines 183-236 with the traversal observed: [outcome, found, visited]
ScanRun(tree, cfg, tracked) ==
    IF cfg.app_name = ""
    THEN [outcome |-> "ConfigurationError", found |-> <<>>, visited |-> <<>>]
    ELSE LET found == FlattenSeq([i \in 1..Len(cfg.search_dirs) |->
                         Walk(cfg.search_dirs[i], cfg.search_dirs[i], tree, cfg, tracked)])
             visited == FlattenSeq([i \in 1..Len(cfg.search_dirs) |->
                         Visit(cfg.search_dirs[i], cfg.search_dirs[i], tree, cfg)])
         IN  [outcome |-> IF found = <<>> THEN "NoneFound" ELSE "Found",
              found |-> found, visited |-> visited]

(***************************************************************************)
(* The notification handler slot: no handler in flight.                    *)
(***************************************************************************)
\* used is the size the iterator saw at its creation; calls, flag and reg
\* observe the handler: the captures it made, the flag it read, the registry
\* it started on; stuck: it waits in a Tk call for a main thread that does
\* not serve the event loop.
\* the files whose modifications are followed from the write to the handler,
\* and how many notifications of one file may wait at a time
BurstPaths == {FileA, FileSubA}
MaxBurst == 2

\* pending: the notifications the observers have queued and not yet handed
\* to the handler; written: the files that were modified while tracked
NoEvent == [active |-> FALSE, path |-> NoPath, pos |-> 0, used |-> 0,
            calls |-> 0, flag |-> FALSE, reg |-> <<>>, stuck |-> FALSE,
            pending |-> [p \in BurstPaths |-> 0], written |-> {}]

\* origin is not on the disk: it remembers the path an entry was copied from
NoSnap == [exists |-> FALSE, files |-> [n \in FNames |-> 0],
           origin |-> [n \in FNames |-> NoPath]]

(***************************************************************************)
(* __init__: the defaults, load_data, the tree filled from managed_files   *)
(* and a watcher ensured for every loaded file.                            *)
(***************************************************************************)
Construct(df, ok) ==
    LET st == load_data(df)
        w == EnsureAll([fw |-> {}, obs |-> [d \in WatchDirs |-> 0]],
                       ValueSeq(st.managed_files), ok)
    IN  /\ managed_files' = st.managed_files
        /\ file_counter' = st.file_counter
        /\ backup_dir' = st.backup_dir
        /\ auto_backup_enabled' = st.auto_backup_enabled
        /\ file_tree' = Keys(st.managed_files)
        /\ file_watchdogs' = w.fw
        /\ observers' = w.obs
        /\ phase' = "running"
        /\ found_files' = <<>>
        /\ ev' = NoEvent
        /\ last' = [NoOp EXCEPT !.op = "init"]

\* the first start: no data file, every file of the tree present, nothing
\* in the backup root
Init ==
    /\ managed_files = <<>>
    /\ file_counter = 0
    /\ file_tree = {}
    /\ backup_dir = ""
    /\ auto_backup_enabled = TRUE
    /\ file_watchdogs = {}
    /\ observers = [d \in WatchDirs |-> 0]
    /\ data_file = NoData
    /\ phase = "running"
    /\ found_files = <<>>
    /\ fs = [p \in Paths \cup ExtraPaths |-> IF p \in Paths THEN 1 ELSE 0]
    /\ snaps = [t \in 1..MaxClock |-> NoSnap]
    /\ clock = 1
    /\ ev = NoEvent
    /\ last = [NoOp EXCEPT !.op = "init"]

(***************************************************************************)
(* File management.                                                        *)
(***************************************************************************)
\* mutant: only the entry added last is compared
IsManagedLast(filepath, d) == d # <<>> /\ d[Len(d)].path = filepath

\* line 360: filepath in self.managed_files.values()
IsManaged(filepath, d) == filepath \in Values(d)

\* add_file: filepath is what the file dialog returns (NoPath: cancelled)
add_file(filepath, ok) ==
    /\ phase = "running"
    /\ IF filepath = NoPath
       THEN /\ last' = [NoOp EXCEPT !.op = "add_file", !.outcome = "Cancelled"]
            /\ UNCHANGED <<managed_files, file_counter, file_tree, file_watchdogs,
                           observers, data_file>>
       ELSE IF IsManaged(filepath, managed_files)
       THEN /\ last' = [NoOp EXCEPT !.op = "add_file", !.outcome = "DuplicatePath",
                                    !.path = filepath]
            /\ UNCHANGED <<managed_files, file_counter, file_tree, file_watchdogs,
                           observers, data_file>>
       ELSE /\ file_counter < MaxCounter
            /\ LET file_id == file_counter
                   w == ensure_watcher_for_file(
                            [fw |-> file_watchdogs, obs |-> observers], filepath, ok)
               IN  /\ file_counter' = file_counter + 1
                   /\ managed_files' = DictSet(managed_files, file_id, filepath)
                   /\ IF file_id \in file_tree
                      THEN \* file_tree.insert raises on an iid it already holds
                           /\ last' = [NoOp EXCEPT !.op = "add_file", !.outcome = "TclError",
                                                   !.path = filepath, !.id = file_id]
                           /\ UNCHANGED <<file_tree, file_watchdogs, observers, data_file>>
                      ELSE /\ file_tree' = file_tree \cup {file_id}
                           /\ file_watchdogs' = w.fw
                           /\ observers' = w.obs
                           /\ data_file' = save_data(managed_files', file_counter',
                                                     backup_dir, auto_backup_enabled)
                           /\ last' = [NoOp EXCEPT !.op = "add_file", !.outcome = "Added",
                                                   !.path = filepath, !.id = file_id,
                                                   !.had_watch =
                                                       dirname(filepath) \in file_watchdogs]
    /\ UNCHANGED <<backup_dir, auto_backup_enabled, phase, found_files, fs, snaps,
                   clock, ev>>

\* remove_file: selected_id is file_tree.focus() (-1: nothing focused),
\* confirm the answer to "Stop managing this file?"
\* mutant: the watch of a directory is stopped with its last tracked file
remove_file_unwatch(selected_id, confirm) ==
    /\ phase = "running"
    /\ IF selected_id = -1
       THEN /\ last' = [NoOp EXCEPT !.op = "remove_file", !.outcome = "NotFound"]
            /\ UNCHANGED <<managed_files, file_tree, data_file, ev, file_watchdogs,
                           observers>>
       ELSE IF ~confirm
       THEN /\ last' = [NoOp EXCEPT !.op = "remove_file", !.outcome = "Cancelled",
                                    !.id = selected_id]
            /\ UNCHANGED <<managed_files, file_tree, data_file, ev, file_watchdogs,
                           observers>>
       ELSE IF selected_id \notin Keys(managed_files)
       THEN /\ last' = [NoOp EXCEPT !.op = "remove_file", !.outcome = "KeyError",
                                    !.id = selected_id]
            /\ UNCHANGED <<managed_files, file_tree, data_file, ev, file_watchdogs,
                           observers>>
       ELSE /\ managed_files' = DictDel(managed_files, selected_id)
            /\ file_tree' = file_tree \ {selected_id}
            /\ data_file' = save_data(managed_files', file_counter, backup_dir,
                                      auto_backup_enabled)
            /\ ev' = DictDelUnderIteration(ev, managed_files, selected_id)
            /\ last' = [NoOp EXCEPT !.op = "remove_file", !.outcome = "Removed",
                                    !.id = selected_id,
                                    !.path = Get(managed_files, selected_id)]
            /\ LET parent_dir == dirname(Get(managed_files, selected_id))
                   unused == /\ parent_dir \in file_watchdogs
                             /\ \A p \in Values(managed_files') : dirname(p) # parent_dir
               IN  /\ file_watchdogs' = IF unused THEN file_watchdogs \ {parent_dir}
                                        ELSE file_watchdogs
                   /\ observers' = IF unused
                                   THEN [observers EXCEPT ![parent_dir] = @ - 1]
                                   ELSE observers
    /\ UNCHANGED <<file_counter, backup_dir, auto_backup_enabled, phase, found_files,
                   fs, snaps, clock>>

remove_file(selected_id, confirm) ==
    /\ phase = "running"
    /\ IF selected_id = -1
       THEN /\ last' = [NoOp EXCEPT !.op = "remove_file", !.outcome = "NotFound"]
            /\ UNCHANGED <<managed_files, file_tree, data_file, ev>>
       ELSE IF ~confirm
       THEN /\ last' = [NoOp EXCEPT !.op = "remove_file", !.outcome = "Cancelled",
                                    !.id = selected_id]
            /\ UNCHANGED <<managed_files, file_tree, data_file, ev>>
       ELSE IF selected_id \notin Keys(managed_files)
       THEN \* del self.managed_files[selected_id] raises KeyError
            /\ last' = [NoOp EXCEPT !.op = "remove_file", !.outcome = "KeyError",
                                    !.id = selected_id]
            /\ UNCHANGED <<managed_files, file_tree, data_file, ev>>
       ELSE /\ managed_files' = DictDel(managed_files, selected_id)
            /\ file_tree' = file_tree \ {selected_id}
            /\ data_file' = save_data(managed_files', file_counter, backup_dir,
                                      auto_backup_enabled)
            /\ ev' = DictDelUnderIteration(ev, managed_files, selected_id)
            /\ last' = [NoOp EXCEPT !.op = "remove_file", !.outcome = "Removed",
                                    !.id = selected_id,
                                    !.path = Get(managed_files, selected_id)]
    /\ UNCHANGED <<file_counter, backup_dir, auto_backup_enabled, file_watchdogs,
                   observers, phase, found_files, fs, snaps, clock>>

\* choose_backup_dir: dir_selected is what the directory dialog returns
choose_backup_dir(dir_selected) ==
    /\ phase = "running"
    /\ IF dir_selected # ""
       THEN /\ backup_dir' = dir_selected
            /\ data_file' = save_data(managed_files, file_counter, backup_dir',
                                      auto_backup_enabled)
       ELSE UNCHANGED <<backup_dir, data_file>>
    /\ last' = [NoOp EXCEPT !.op = "choose_backup_dir"]
    /\ UNCHANGED <<managed_files, file_counter, file_tree, auto_backup_enabled,
                   file_watchdogs, observers, phase, found_files, fs, snaps, clock, ev>>

\* toggle_auto_backup: the check button has flipped auto_backup_var
toggle_auto_backup ==
    /\ phase = "running"
    /\ auto_backup_enabled' = ~auto_backup_enabled
    /\ data_file' = save_data(managed_files, file_counter, backup_dir,
                              auto_backup_enabled')
    /\ last' = [NoOp EXCEPT !.op = "toggle_auto_backup"]
    /\ UNCHANGED <<managed_files, file_counter, file_tree, backup_dir, file_watchdogs,
                   observers, phase, found_files, fs, snaps, clock, ev>>

(***************************************************************************)
(* FileHandler.copy_file on contents: src and dst are the contents at the  *)
(* two paths (0: nothing there), io_error an error of the copy itself.     *)
(***************************************************************************)
copy_file(src, dst, overwrite, io_error) ==
    IF src = 0 THEN [err |-> "SourceMissing", dst |-> dst]
    ELSE IF dst # 0 /\ ~overwrite THEN [err |-> "DestinationExists", dst |-> dst]
    ELSE IF io_error THEN [err |-> "IOFailure", dst |-> dst]
    ELSE [err |-> "", dst |-> src]

(***************************************************************************)
(* FileHandler.copy_file on a disk.  A disk maps a path to what is there:  *)
(* 0 nothing, Dir a directory, c > 0 a file of content c.  The paths are   *)
(* s, t, t/s, n and n/t; the root is a directory.                          *)
(***************************************************************************)
Dir == -1
CopyS == <<"s">>
CopyT == <<"t">>
CopyTS == <<"t", "s">>
CopyN == <<"n">>
CopyNT == <<"n", "t">>
CopyPaths == {CopyS, CopyT, CopyTS, CopyN, CopyNT}
CopyDsts == {CopyS, CopyT, CopyNT}

Parent(p) == SubSeq(p, 1, Len(p) - 1)

\* Path.is_dir, Path.is_file, Path.exists
is_dir(disk, p) == p = <<>> \/ disk[p] = Dir
is_file(disk, p) == p # <<>> /\ disk[p] > 0
exists(disk, p) == p = <<>> \/ disk[p] # 0

\* what is on a disk hangs together: an entry lies in a directory
Consistent(disk) == \A p \in DOMAIN disk : disk[p] # 0 => is_dir(disk, Parent(p))

\* Path.mkdir(parents=True, exist_ok=True): [err, disk]
RECURSIVE mkdir(_, _)
mkdir(disk, p) ==
    IF is_dir(disk, p) THEN [err |-> "", disk |-> disk]
    ELSE IF is_file(disk, p) THEN [err |-> "FileExistsError", disk |-> disk]
    ELSE LET up == mkdir(disk, Parent(p))
         IN  IF up.err # "" THEN up
             ELSE [err |-> "", disk |-> [up.disk EXCEPT ![p] = Dir]]

\* shutil.copy2(src, dst): into dst when dst is a directory
copy2(disk, src, dst) ==
    LET target == IF is_dir(disk, dst) THEN dst \o <<basename(src)>> ELSE dst
    IN  IF target = src THEN [err |-> "SameFileError", disk |-> disk]
        ELSE [err |-> "", disk |-> [disk EXCEPT ![target] = disk[src]]]

\* mutant: the parents of dst are not created, and copy2 finds no directory
\* to write into
copy_file_disk_no_mkdir(disk, src, dst, overwrite) ==
    IF ~is_file(disk, src) THEN [err |-> "SourceMissing", disk |-> disk]
    ELSE IF exists(disk, dst) /\ ~overwrite
         THEN [err |-> "DestinationExists", disk |-> disk]
    ELSE IF ~is_dir(disk, Parent(dst))
         THEN [err |-> "FileNotFoundError", disk |-> disk]
    ELSE copy2(disk, src, dst)

copy_file_disk(disk, src, dst, overwrite) ==
    IF ~is_file(disk, src) THEN [err |-> "SourceMissing", disk |-> disk]
    ELSE IF exists(disk, dst) /\ ~overwrite
         THEN [err |-> "DestinationExists", disk |-> disk]
    ELSE LET made == mkdir(disk, Parent(dst))
         IN  IF made.err # "" THEN made
             ELSE copy2(made.disk, src, dst)

\* file_handler.copy_file(src, dst, overwrite=overwrite)
copy(src, dst, overwrite) ==
    /\ \E r \in {copy_file_disk(fs, src, dst, overwrite)} :
           /\ fs' = r.disk
           /\ last' = [NoOp EXCEPT !.op = "copy_file", !.outcome = r.err,
                                   !.path = src, !.dst = dst,
                                   !.overwrite = overwrite, !.before = fs]
    /\ UNCHANGED <<managed_files, file_counter, file_tree, backup_dir,
                   auto_backup_enabled, file_watchdogs, observers, data_file, phase,
                   found_files, snaps, clock, ev>>

(***************************************************************************)
(* Backup.  in = [set_now, dir, mkdir_fails, fail_at]: the answer to       *)
(* "Set now?", the directory then chosen, whether os.makedirs raises, and  *)
(* the position in files whose copy raises (0: none).                      *)
(***************************************************************************)
CaptureInputs(n) ==
    {in \in [set_now : BOOLEAN, dir : {"", BackupRoot}, mkdir_fails : BOOLEAN,
             fail_at : 0..n] :
        /\ backup_dir # "" => ~in.set_now
        /\ ~in.set_now => in.dir = ""
        /\ in.mkdir_fails => in.fail_at = 0}

\* mutant: a failed copy is passed over and the loop goes on
RECURSIVE CopyLoopContinue(_, _, _, _, _)
CopyLoopContinue(files, i, f, r, fail_at) ==
    IF i > Len(files) THEN r
    ELSE LET path == files[i]
             fname == basename(path)
         IN  IF f[path] = 0
             THEN CopyLoopContinue(files, i + 1, f, r, fail_at)
             ELSE LET c == copy_file(f[path], r.snap.files[fname], TRUE, i = fail_at)
                  IN  IF c.err # ""
                      THEN CopyLoopContinue(files, i + 1, f, [r EXCEPT !.err = c.err],
                                            fail_at)
                      ELSE CopyLoopContinue(files, i + 1, f,
                                            [r EXCEPT !.snap.files[fname] = c.dst,
                                                      !.snap.origin[fname] = path,
                                                      !.copied = Append(@, path)],
                                            fail_at)

\* mutant: os.path.exists is not asked, every listed file is copied
RECURSIVE CopyLoopNoExists(_, _, _, _, _)
CopyLoopNoExists(files, i, f, r, fail_at) ==
    IF i > Len(files) THEN r
    ELSE LET path == files[i]
             fname == basename(path)
             c == copy_file(f[path], r.snap.files[fname], TRUE, i = fail_at)
         IN  IF c.err # ""
             THEN [r EXCEPT !.err = c.err]
             ELSE CopyLoopNoExists(files, i + 1, f,
                                   [r EXCEPT !.snap.files[fname] = c.dst,
                                             !.snap.origin[fname] = path,
                                             !.copied = Append(@, path)],
                                   fail_at)

\* the loop of lines 412-417 from position i on; r = [snap, copied, err]
RECURSIVE CopyLoop(_, _, _, _, _)
CopyLoop(files, i, f, r, fail_at) ==
    IF i > Len(files) THEN r
    ELSE LET path == files[i]
             fname == basename(path)
         IN  IF f[path] = 0
             THEN CopyLoop(files, i + 1, f, r, fail_at)
             ELSE LET c == copy_file(f[path], r.snap.files[fname], TRUE, i = fail_at)
                  IN  IF c.err # ""
                      THEN [r EXCEPT !.err = c.err]
                      ELSE CopyLoop(files, i + 1, f,
                                    [r EXCEPT !.snap.files[fname] = c.dst,
                                              !.snap.origin[fname] = path,
                                              !.copied = Append(@, path)],
                                    fail_at)

\* mutant: the root is not tested again after choose_backup_dir
backup_files_unchecked(files, bd, sn, f, t, in) ==
    LET none == [backup_dir |-> bd, snaps |-> sn, saved |-> FALSE,
                 outcome |-> "", copied |-> <<>>, count |-> 0]
    IN  IF files = <<>> THEN [none EXCEPT !.outcome = "NoFiles"]
        ELSE IF bd = "" /\ ~in.set_now THEN [none EXCEPT !.outcome = "BackupRootUnset"]
        ELSE LET root == IF bd = "" THEN in.dir ELSE bd
                 chosen == [none EXCEPT !.backup_dir = root,
                                        !.saved = (bd = "" /\ in.dir # "")]
                 r == CopyLoop(files, 1, f,
                               [snap |-> [sn[t] EXCEPT !.exists = TRUE],
                                copied |-> <<>>, err |-> ""],
                               in.fail_at)
             IN  IF in.mkdir_fails THEN [chosen EXCEPT !.outcome = "IOFailure"]
                 ELSE [chosen EXCEPT !.snaps = [sn EXCEPT ![t] = r.snap],
                                     !.outcome = IF r.err = "" THEN "Ok" ELSE "IOFailure",
                                     !.copied = r.copied,
                                     !.count = Len(r.copied)]

\* _backup_files: the result [backup_dir, snaps, saved, outcome, copied, count]
backup_files(files, bd, sn, f, t, in) ==
    LET none == [backup_dir |-> bd, snaps |-> sn, saved |-> FALSE,
                 outcome |-> "", copied |-> <<>>, count |-> 0]
    IN  IF files = <<>> THEN [none EXCEPT !.outcome = "NoFiles"]
        ELSE IF bd = "" /\ ~in.set_now THEN [none EXCEPT !.outcome = "BackupRootUnset"]
        ELSE IF bd = "" /\ in.dir = "" THEN [none EXCEPT !.outcome = "BackupRootUnset"]
        ELSE LET root == IF bd = "" THEN in.dir ELSE bd
                 chosen == [none EXCEPT !.backup_dir = root, !.saved = (bd = "")]
             IN  IF in.mkdir_fails THEN [chosen EXCEPT !.outcome = "IOFailure"]
                 ELSE LET r == CopyLoop(files, 1, f,
                                        [snap |-> [sn[t] EXCEPT !.exists = TRUE],
                                         copied |-> <<>>, err |-> ""],
                                        in.fail_at)
                      IN  [chosen EXCEPT !.snaps = [sn EXCEPT ![t] = r.snap],
                                         !.outcome = IF r.err = "" THEN "Ok" ELSE "IOFailure",
                                         !.copied = r.copied,
                                         !.count = Len(r.copied)]

\* the effect of one _backup_files call on the application state
DoBackup(op, files, in) ==
    \E r \in {backup_files(files, backup_dir, snaps, fs, clock, in)} :
        /\ backup_dir' = r.backup_dir
        /\ snaps' = r.snaps
        /\ data_file' = IF r.saved
                        THEN save_data(managed_files, file_counter, r.backup_dir,
                                       auto_backup_enabled)
                        ELSE data_file
        /\ last' = [NoOp EXCEPT !.op = op, !.outcome = r.outcome, !.files = files,
                                !.copied = r.copied, !.count = r.count,
                                !.mkdir_fails = in.mkdir_fails, !.fail_at = in.fail_at]

\* backup_all ("Backup Now")
backup_all(in) ==
    /\ phase = "running"
    /\ DoBackup("backup_all", ValueSeq(managed_files), in)
    /\ UNCHANGED <<managed_files, file_counter, file_tree, auto_backup_enabled,
                   file_watchdogs, observers, phase, found_files, fs, clock, ev>>

(***************************************************************************)
(* Restore.  selected is the second of the snapshot name typed (0: none or *)
(* no candidate), ok the answer to the confirmation, fail the file names   *)
(* whose copy raises.                                                      *)
(***************************************************************************)
Candidates(bd, sn) == IF bd = "" THEN {} ELSE {t \in DOMAIN sn : sn[t].exists}

\* the instants (seconds since 2024-01-01 00:00:00) of the clock's ticks
Instants == <<9, 10, 3599, 3600, 86399, 86400>>
Instant(t) == IF t <= Len(Instants) THEN Instants[t] ELSE 86400 + t

Digit(n) ==
    CASE n = 0 -> "0" [] n = 1 -> "1" [] n = 2 -> "2" [] n = 3 -> "3" [] n = 4 -> "4"
      [] n = 5 -> "5" [] n = 6 -> "6" [] n = 7 -> "7" [] n = 8 -> "8" [] n = 9 -> "9"

\* str(n)
RECURSIVE Decimal(_)
Decimal(n) == IF n < 10 THEN <<Digit(n)>> ELSE Decimal(n \div 10) \o <<Digit(n % 10)>>

\* mutant: the fields are not padded
PadNone(n, width) == Decimal(n)

\* a strftime field: n in decimal, zero-padded to width
Pad(n, width) ==
    LET d == Decimal(n)
    IN  [i \in 1..(width - Len(d)) |-> "0"] \o d

\* datetime.now().strftime("%Y-%m-%d_%H-%M-%S") at sec seconds into January 2024
Timestamp(sec) ==
    Pad(2024, 4) \o <<"-">> \o Pad(1, 2) \o <<"-">> \o Pad(1 + sec \div 86400, 2)
        \o <<"_">> \o Pad((sec \div 3600) % 24, 2)
        \o <<"-">> \o Pad((sec \div 60) % 60, 2)
        \o <<"-">> \o Pad(sec % 60, 2)

\* line 408: the name of the snapshot directory of tick t
SnapshotName(t) == Chars("ConfigBackup_") \o Timestamp(Instant(t))

\* os.listdir(self.backup_dir)
RootEntries(sn, f) ==
    {SnapshotName(t) : t \in {u \in DOMAIN sn : sn[u].exists}}
        \cup {Chars(n) : n \in {m \in ExtraNames : f[ExtraPath(m)] # 0}}

\* str.startswith
StartsWith(s, prefix) == Len(s) >= Len(prefix) /\ SubSeq(s, 1, Len(prefix)) = prefix

\* line 429: the candidates offered
ListBackups(entries) == {d \in entries : StartsWith(d, Chars("ConfigBackup_"))}

\* {os.path.basename(path): file_id for file_id, path in managed_files.items()}:
\* of two entries with one basename the later wins
NameKeys(d) == {basename(d[i].path) : i \in 1..Len(d)}
name_to_id(d) ==
    [n \in NameKeys(d) |->
        LET I == {i \in 1..Len(d) : basename(d[i].path) = n}
        IN  d[CHOOSE i \in I : \A j \in I : j <= i].id]

\* mutant: the first failed copy ends the restore
RECURSIVE RestoreLoopFailFast(_, _, _, _, _)
RestoreLoopFailFast(names, snap, d, r, fail) ==
    IF names = <<>> THEN r
    ELSE LET fname == Head(names)
         IN  IF fname \in DOMAIN name_to_id(d)
             THEN LET dest_path == Get(d, name_to_id(d)[fname])
                      c == copy_file(snap.files[fname], r.fs[dest_path], TRUE,
                                     fname \in fail)
                  IN  IF c.err = ""
                      THEN RestoreLoopFailFast(Tail(names), snap, d,
                                               [r EXCEPT !.fs[dest_path] = c.dst,
                                                         !.restored = @ + 1,
                                                         !.written = Append(@, dest_path)],
                                               fail)
                      ELSE [r EXCEPT !.failed = @ \cup {fname}]
             ELSE RestoreLoopFailFast(Tail(names), snap, d, r, fail)

\* mutant: copy_file is called without overwrite=True
RECURSIVE RestoreLoopNoOverwrite(_, _, _, _, _)
RestoreLoopNoOverwrite(names, snap, d, r, fail) ==
    IF names = <<>> THEN r
    ELSE LET fname == Head(names)
         IN  IF fname \in DOMAIN name_to_id(d)
             THEN LET dest_path == Get(d, name_to_id(d)[fname])
                      c == copy_file(snap.files[fname], r.fs[dest_path], FALSE,
                                     fname \in fail)
                  IN  IF c.err = ""
                      THEN RestoreLoopNoOverwrite(Tail(names), snap, d,
                                                  [r EXCEPT !.fs[dest_path] = c.dst,
                                                            !.restored = @ + 1,
                                                            !.written = Append(@, dest_path)],
                                                  fail)
                      ELSE RestoreLoopNoOverwrite(Tail(names), snap, d,
                                                  [r EXCEPT !.failed = @ \cup {fname}], fail)
             ELSE RestoreLoopNoOverwrite(Tail(names), snap, d, r, fail)

\* the loop of lines 456-464 over names; r = [fs, restored, written, failed]
RECURSIVE RestoreLoop(_, _, _, _, _)
RestoreLoop(names, snap, d, r, fail) ==
    IF names = <<>> THEN r
    ELSE LET fname == Head(names)
         IN  IF fname \in DOMAIN name_to_id(d)
             THEN LET dest_path == Get(d, name_to_id(d)[fname])
                      c == copy_file(snap.files[fname], r.fs[dest_path], TRUE,
                                     fname \in fail)
                  IN  IF c.err = ""
                      THEN RestoreLoop(Tail(names), snap, d,
                                       [r EXCEPT !.fs[dest_path] = c.dst,
                                                 !.restored = @ + 1,
                                                 !.written = Append(@, dest_path)],
                                       fail)
                      ELSE RestoreLoop(Tail(names), snap, d,
                                       [r EXCEPT !.failed = @ \cup {fname}], fail)
             ELSE RestoreLoop(Tail(names), snap, d, r, fail)

restore_files(selected, ok, fail) ==
    /\ phase = "running"
    /\ LET candidates == IF backup_dir = "" THEN {}
                         ELSE ListBackups(RootEntries(snaps, fs))
           done(outcome) ==
               /\ last' = [NoOp EXCEPT !.op = "restore_files", !.outcome = outcome,
                                       !.sel = selected, !.candidates = candidates]
               /\ UNCHANGED fs
       IN  IF backup_dir = "" THEN done("NoBackupDir")
           ELSE IF candidates = {} THEN done("NoBackups")
           ELSE IF selected \notin Candidates(backup_dir, snaps) THEN done("Cancelled")
           ELSE IF ~ok THEN done("Declined")
           ELSE LET snap == snaps[selected]
                    files_to_restore == SetToSeq({n \in FNames : snap.files[n] # 0})
                IN  \E r \in {RestoreLoop(files_to_restore, snap, managed_files,
                                            [fs |-> fs, restored |-> 0, written |-> <<>>,
                                             failed |-> {}], fail)} :
                    /\ fs' = r.fs
                    /\ last' = [NoOp EXCEPT !.op = "restore_files", !.outcome = "Done",
                                            !.sel = selected, !.count = r.restored,
                                            !.copied = r.written, !.failed = r.failed,
                                            !.fail_in = fail,
                                            !.candidates = candidates]
    /\ UNCHANGED <<managed_files, file_counter, file_tree, backup_dir,
                   auto_backup_enabled, file_watchdogs, observers, data_file, phase,
                   found_files, snaps, clock, ev>>

(***************************************************************************)
(* Auto-detection: the scan, then the modal results dialog.                *)
(***************************************************************************)
AutoDetect ==
    /\ phase = "running"
    /\ LET found == ScanTable[DiskTree(fs).files][Values(managed_files)]
       IN  IF found = <<>>
           THEN /\ last' = [NoOp EXCEPT !.op = "auto_detect", !.outcome = "NoneFound"]
                /\ UNCHANGED <<phase, found_files>>
           ELSE /\ phase' = "dialog"
                /\ found_files' = found
                /\ last' = [NoOp EXCEPT !.op = "auto_detect", !.outcome = "Found",
                                        !.files = found]
    /\ UNCHANGED <<managed_files, file_counter, file_tree, backup_dir,
                   auto_backup_enabled, file_watchdogs, observers, data_file, fs,
                   snaps, clock, ev>>

\* "Auto-Detect" with the entry fields holding ui, on the tree below
\* ScanRoot
auto_detect(ui) ==
    /\ phase = "running"
    /\ LET cfg == ReadUI([detection_config EXCEPT !.search_dirs = <<ScanRoot>>], ui)
       IN  \E r \in {ScanRun(ScanTree(fs), cfg, Values(managed_files))} :
           /\ IF r.outcome = "Found"
              THEN phase' = "dialog" /\ found_files' = r.found
              ELSE UNCHANGED <<phase, found_files>>
           /\ last' = [NoOp EXCEPT !.op = "auto_detect", !.outcome = r.outcome,
                                   !.files = r.found, !.cfg = cfg,
                                   !.visited = r.visited]
    /\ UNCHANGED <<managed_files, file_counter, file_tree, backup_dir,
                   auto_backup_enabled, file_watchdogs, observers, data_file, fs,
                   snaps, clock, ev>>

\* the loop of add_selected over the dialog items from position i on;
\* r = [mf, fc, tree, w, added, err]
RECURSIVE AddLoop(_, _, _, _, _)
AddLoop(items, selected, i, r, ok) ==
    IF i > Len(items) \/ r.err # "" THEN r
    ELSE IF i \notin selected THEN AddLoop(items, selected, i + 1, r, ok)
    ELSE LET filepath == items[i]
             file_id == r.fc
             put == [r EXCEPT !.fc = @ + 1, !.mf = DictSet(@, file_id, filepath)]
         IN  IF file_id \in r.tree
             THEN [put EXCEPT !.err = "TclError"]
             ELSE AddLoop(items, selected, i + 1,
                          [put EXCEPT !.tree = @ \cup {file_id},
                                      !.w = ensure_watcher_for_file(@, filepath, ok),
                                      !.added = @ + 1],
                          ok)

\* "Add Selected": selected is the set of ticked items
add_selected(selected, ok) ==
    /\ phase = "dialog"
    /\ file_counter + Cardinality(selected) <= MaxCounter
    /\ \E r \in {AddLoop(found_files, selected, 1,
                        [mf |-> managed_files, fc |-> file_counter, tree |-> file_tree,
                         w |-> [fw |-> file_watchdogs, obs |-> observers],
                         added |-> 0, err |-> ""], ok)} :
           /\ managed_files' = r.mf
           /\ file_counter' = r.fc
           /\ file_tree' = r.tree
           /\ file_watchdogs' = r.w.fw
           /\ observers' = r.w.obs
           /\ IF r.err = ""
              THEN /\ data_file' = save_data(r.mf, r.fc, backup_dir, auto_backup_enabled)
                   /\ phase' = "running"
                   /\ found_files' = <<>>
              ELSE UNCHANGED <<data_file, phase, found_files>>
           /\ last' = [NoOp EXCEPT !.op = "add_selected",
                                   !.outcome = IF r.err = "" THEN "Added" ELSE r.err,
                                   !.count = r.added]
    /\ UNCHANGED <<backup_dir, auto_backup_enabled, fs, snaps, clock, ev>>

\* "Cancel" (dialog.destroy)
cancel_dialog ==
    /\ phase = "dialog"
    /\ phase' = "running"
    /\ found_files' = <<>>
    /\ last' = [NoOp EXCEPT !.op = "cancel_dialog"]
    /\ UNCHANGED <<managed_files, file_counter, file_tree, backup_dir,
                   auto_backup_enabled, file_watchdogs, observers, data_file, fs,
                   snaps, clock, ev>>

(***************************************************************************)
(* The watchdog callback on_event, on the observer's thread.  Notify is    *)
(* the entry (the flag test and the creation of the dict iterator), each   *)
(* HandlerStep one turn of the for loop; the foreground may act between.   *)
(***************************************************************************)
\* mutant: the file names are compared, not the paths
EventMatchesByName(src_path, tracked_path) == basename(src_path) = basename(tracked_path)

\* line 477: event.src_path == tracked_path
EventMatches(src_path, tracked_path) == src_path = tracked_path

HandlerEnabled(flag) == flag

\* on_event entered for a modification of p; pending is what stays queued
Dispatch(p, pending) ==
    /\ phase # "quit"
    /\ observers[dirname(p)] > 0
    /\ ~ev.active
    /\ IF ~HandlerEnabled(auto_backup_enabled)
       THEN /\ last' = [NoOp EXCEPT !.op = "on_event", !.outcome = "Ignored", !.path = p]
            /\ ev' = [ev EXCEPT !.pending = pending]
       ELSE /\ ev' = [active |-> TRUE, path |-> p, pos |-> 1,
                      used |-> Len(managed_files), calls |-> 0,
                      flag |-> auto_backup_enabled, reg |-> managed_files,
                      stuck |-> FALSE, pending |-> pending, written |-> ev.written]
            /\ last' = [NoOp EXCEPT !.op = "on_event", !.outcome = "Entered", !.path = p]
    /\ UNCHANGED <<managed_files, file_counter, file_tree, backup_dir,
                   auto_backup_enabled, file_watchdogs, observers, data_file, phase,
                   found_files, fs, snaps, clock>>

\* a modification event for p arrives and is handled at once
Notify(p) == Dispatch(p, ev.pending)

\* another program writes content c to the watched file p: the observer of
\* its directory queues a modification event
Modify(p, c) ==
    /\ phase = "running"
    /\ observers[dirname(p)] > 0
    /\ fs[p] # c
    /\ ev.pending[p] < MaxBurst
    /\ fs' = [fs EXCEPT ![p] = c]
    /\ ev' = [ev EXCEPT !.pending[p] = @ + 1, !.written = @ \cup {p}]
    /\ last' = [NoOp EXCEPT !.op = "write", !.path = p]
    /\ UNCHANGED <<managed_files, file_counter, file_tree, backup_dir,
                   auto_backup_enabled, file_watchdogs, observers, data_file, phase,
                   found_files, snaps, clock>>

\* the observer hands the oldest queued event of p to on_event
Deliver(p) ==
    /\ ev.pending[p] > 0
    /\ Dispatch(p, [ev.pending EXCEPT ![p] = @ - 1])

HandlerStep(in) ==
    /\ ev.active
    /\ ~ev.stuck
    /\ IF Len(managed_files) # ev.used
       THEN \* RuntimeError: dictionary changed size during iteration
            /\ ev' = [NoEvent EXCEPT !.pending = ev.pending, !.written = ev.written]
            /\ last' = [NoOp EXCEPT !.op = "on_event", !.outcome = "RuntimeError",
                                    !.path = ev.path, !.calls = ev.calls]
            /\ UNCHANGED <<backup_dir, snaps, data_file>>
       ELSE IF ev.pos > Len(managed_files)
       THEN /\ ev' = [NoEvent EXCEPT !.pending = ev.pending, !.written = ev.written]
            /\ last' = [NoOp EXCEPT !.op = "on_event", !.outcome = "Done",
                                    !.path = ev.path, !.calls = ev.calls,
                                    !.quiet = (managed_files = ev.reg)]
            /\ UNCHANGED <<backup_dir, snaps, data_file>>
       ELSE LET tracked_path == managed_files[ev.pos].path
            IN  IF EventMatches(ev.path, tracked_path)
                THEN /\ DoBackup("backup_single", <<tracked_path>>, in)
                     /\ ev' = [ev EXCEPT !.pos = @ + 1, !.calls = @ + 1]
                ELSE /\ ev' = [ev EXCEPT !.pos = @ + 1]
                     /\ last' = [NoOp EXCEPT !.op = "on_event", !.outcome = "Next",
                                             !.path = ev.path]
                     /\ UNCHANGED <<backup_dir, snaps, data_file>>
    /\ UNCHANGED <<managed_files, file_counter, file_tree, auto_backup_enabled,
                   file_watchdogs, observers, phase, found_files, fs, clock>>

\* The handler's next turn is a match: it calls status_var.set (line 478)
\* and, in _backup_files, messagebox, from the observer's thread.  While the
\* main thread is inside on_quit it serves no event, and with a threaded Tcl
\* such a call waits for it; otherwise the call runs in place (HandlerStep).
HandlerWaitsForMainThread ==
    /\ phase = "quitting"
    /\ ev.active
    /\ ~ev.stuck
    /\ Len(managed_files) = ev.used
    /\ ev.pos <= Len(managed_files)
    /\ EventMatches(ev.path, managed_files[ev.pos].path)
    /\ ev' = [ev EXCEPT !.stuck = TRUE]
    /\ last' = [NoOp EXCEPT !.op = "on_event", !.outcome = "Waiting", !.path = ev.path]
    /\ UNCHANGED <<managed_files, file_counter, file_tree, backup_dir,
                   auto_backup_enabled, file_watchdogs, observers, data_file, phase,
                   found_files, fs, snaps, clock>>

(***************************************************************************)
(* Shutdown and the next start of the program.                             *)
(***************************************************************************)
\* on_quit is entered while a handler is in flight: wdog.stop() has told the
\* observer to stop and waits in observer.join(), which has no timeout, for
\* the observer's thread to leave the handler
on_quit_waits ==
    /\ phase = "running"
    /\ ev.active
    /\ phase' = "quitting"
    /\ last' = [NoOp EXCEPT !.op = "on_quit", !.outcome = "Joining"]
    /\ UNCHANGED <<managed_files, file_counter, file_tree, backup_dir,
                   auto_backup_enabled, file_watchdogs, observers, data_file,
                   found_files, fs, snaps, clock, ev>>

\* on_quit: every watchdog stopped (stop() joins the observer thread, so a
\* handler in flight has returned), the state saved, the window destroyed
on_quit ==
    /\ phase \in {"running", "quitting"}
    /\ ~ev.active
    /\ observers' = [d \in WatchDirs |->
                        IF d \in file_watchdogs THEN observers[d] - 1 ELSE observers[d]]
    /\ data_file' = save_data(managed_files, file_counter, backup_dir,
                              auto_backup_enabled)
    /\ phase' = "quit"
    /\ last' = [NoOp EXCEPT !.op = "on_quit"]
    /\ UNCHANGED <<managed_files, file_counter, file_tree, backup_dir,
                   auto_backup_enabled, file_watchdogs, found_files, fs, snaps,
                   clock, ev>>

\* the program is started again: __init__ on the data file left behind
Start(ok) ==
    /\ phase = "quit"
    /\ Construct(data_file, ok)
    /\ UNCHANGED <<data_file, fs, snaps, clock>>

(***************************************************************************)
(* The environment: the clock, and other programs writing the files.       *)
(***************************************************************************)
Tick ==
    /\ clock < MaxClock
    /\ clock' = clock + 1
    /\ last' = [NoOp EXCEPT !.op = "tick"]
    /\ UNCHANGED <<managed_files, file_counter, file_tree, backup_dir,
                   auto_backup_enabled, file_watchdogs, observers, data_file, phase,
                   found_files, fs, snaps, ev>>

\* the data file damaged, replaced or deleted while the program is not running
Corrupt(kind) ==
    /\ phase = "quit"
    /\ data_file.kind = "ok"
    /\ data_file' = [data_file EXCEPT !.kind = kind]
    /\ last' = [NoOp EXCEPT !.op = "corrupt"]
    /\ UNCHANGED <<managed_files, file_counter, file_tree, backup_dir,
                   auto_backup_enabled, file_watchdogs, observers, phase,
                   found_files, fs, snaps, clock, ev>>

\* content c written to p (c = 0: p deleted)
WriteFile(p, c) ==
    /\ fs[p] # c
    /\ fs' = [fs EXCEPT ![p] = c]
    /\ last' = [NoOp EXCEPT !.op = "write"]
    /\ UNCHANGED <<managed_files, file_counter, file_tree, backup_dir,
                   auto_backup_enabled, file_watchdogs, observers, data_file, phase,
                   found_files, snaps, clock, ev>>

(***************************************************************************)
(* Spec: the registry, the watches, and the program quit and started again.*)
(***************************************************************************)
StartResults(p) == {{}, {dirname(p)}}

Registry ==
    \/ \E p \in Paths \cup {NoPath} : \E ok \in StartResults(p) : add_file(p, ok)
    \/ \E id \in file_tree \cup {-1}, confirm \in BOOLEAN : remove_file(id, confirm)
    \/ \E dir \in {"", BackupRoot} : choose_backup_dir(dir)
    \/ toggle_auto_backup
    \/ AutoDetect
    \/ \E sel \in SUBSET (1..Len(found_files)), ok \in SUBSET WatchDirs :
           add_selected(sel, ok)
    \/ cancel_dialog

Next ==
    \/ Registry
    \/ on_quit
    \/ \E ok \in SUBSET WatchDirs : Start(ok)

Spec == Init /\ [][Next]_vars

(***************************************************************************)
(* SpecWatch: the registry and the notification handler, with at most      *)
(* MaxWatched ids handed out.                                              *)
(***************************************************************************)
NextWatch ==
    \/ Registry /\ file_counter' <= MaxWatched
    \/ \E p \in Paths : Notify(p)
    \/ \E in \in CaptureInputs(1) : HandlerStep(in)

SpecWatch == Init /\ [][NextWatch]_vars

(***************************************************************************)
(* SpecBackup: backup and restore in the foreground within one clock       *)
(* second, while other programs write and delete the files.                *)
(***************************************************************************)
RestoreInputs ==
    {in \in [selected : 0..MaxClock, ok : BOOLEAN, fail : SUBSET FNames] :
        ~in.ok => in.fail = {}}

NextBackup ==
    \/ \E p \in Paths : add_file(p, {dirname(p)}) /\ file_counter' <= MaxBackedUp
    \/ \E id \in file_tree : remove_file(id, TRUE)
    \/ choose_backup_dir(BackupRoot)
    \/ \E in \in CaptureInputs(Len(managed_files)) : backup_all(in)
    \/ \E in \in RestoreInputs : restore_files(in.selected, in.ok, in.fail)
    \/ \E p \in Paths, c \in 0..MaxContent : WriteFile(p, c)

SpecBackup == Init /\ [][NextBackup]_vars

(***************************************************************************)
(* SpecQuit: the window closed while files are tracked and notifications   *)
(* are handled.                                                            *)
(***************************************************************************)
NextQuit ==
    \/ \E p \in Paths : add_file(p, {dirname(p)}) /\ file_counter' <= MaxWatched
    \/ choose_backup_dir(BackupRoot)
    \/ \E p \in Paths : Notify(p)
    \/ \E in \in CaptureInputs(1) : HandlerStep(in)
    \/ HandlerWaitsForMainThread
    \/ on_quit_waits
    \/ on_quit

SpecQuit == Init /\ [][NextQuit]_vars

(***************************************************************************)
(* SpecBurst: tracked files written by other programs, the events queued   *)
(* and handled one by one, with the backup root set and no copy failing.   *)
(***************************************************************************)
NextBurst ==
    \/ \E p \in BurstPaths : add_file(p, {dirname(p)})
    \/ choose_backup_dir(BackupRoot)
    \/ \E p \in BurstPaths, c \in 1..MaxContent :
           backup_dir # "" /\ p \in Values(managed_files) /\ Modify(p, c)
    \/ \E p \in BurstPaths : Deliver(p)
    \/ \E in \in {i \in CaptureInputs(1) : ~i.mkdir_fails /\ i.fail_at = 0} :
           HandlerStep(in)
    \/ Tick

SpecBurst == Init /\ [][NextBurst]_vars

(***************************************************************************)
(* SpecDog: FileWatchdog objects by themselves, one for each directory of  *)
(* DogDirs.  Here file_watchdogs holds the directories whose watchdog has  *)
(* self.observer set, and observers[d] tells whether that observer's       *)
(* thread is alive.                                                        *)
(***************************************************************************)
DogDirs == WatchDirs \cup {<<"backup">>}

\* where a start can fail: nowhere, in observer.schedule, in observer.start
StartFailures == {"", "schedule", "start"}

\* FileWatchdog.start of the watchdog of d, made by create_watchdog
start(d, failure) ==
    /\ IF d \in file_watchdogs
       THEN \* line 120
            /\ last' = [NoOp EXCEPT !.op = "start", !.outcome = "RuntimeError",
                                    !.path = d, !.had_watch = TRUE]
            /\ UNCHANGED <<file_watchdogs, observers>>
       ELSE \* line 125 has assigned self.observer when line 126 or 131 raises
            /\ file_watchdogs' = file_watchdogs \cup {d}
            /\ observers' = IF failure = "" THEN [observers EXCEPT ![d] = 1]
                            ELSE observers
            /\ last' = [NoOp EXCEPT !.op = "start", !.path = d,
                                    !.outcome = IF failure = "" THEN "Started"
                                                ELSE "OSError",
                                    !.fail_in = {failure} \ {""}]
    /\ UNCHANGED <<managed_files, file_counter, file_tree, backup_dir,
                   auto_backup_enabled, data_file, phase, found_files, fs, snaps,
                   clock, ev>>

\* FileWatchdog.stop of the watchdog of d
stop(d) ==
    /\ IF d \notin file_watchdogs
       THEN \* line 136
            /\ last' = [NoOp EXCEPT !.op = "stop", !.outcome = "RuntimeError",
                                    !.path = d]
            /\ UNCHANGED <<file_watchdogs, observers>>
       ELSE IF observers[d] = 0
       THEN \* line 139: join of a thread that was never started raises
            /\ last' = [NoOp EXCEPT !.op = "stop", !.outcome = "RuntimeError",
                                    !.path = d, !.had_watch = TRUE]
            /\ UNCHANGED <<file_watchdogs, observers>>
       ELSE /\ file_watchdogs' = file_watchdogs \ {d}
            /\ observers' = [observers EXCEPT ![d] = 0]
            /\ last' = [NoOp EXCEPT !.op = "stop", !.outcome = "Stopped", !.path = d,
                                    !.had_watch = TRUE]
    /\ UNCHANGED <<managed_files, file_counter, file_tree, backup_dir,
                   auto_backup_enabled, data_file, phase, found_files, fs, snaps,
                   clock, ev>>

\* FileWatchdog.is_running
is_running(d) == d \in file_watchdogs /\ observers[d] > 0

InitDog ==
    /\ managed_files = <<>>
    /\ file_counter = 0
    /\ file_tree = {}
    /\ backup_dir = ""
    /\ auto_backup_enabled = TRUE
    /\ file_watchdogs = {}
    /\ observers = [d \in DogDirs |-> 0]
    /\ data_file = NoData
    /\ phase = "running"
    /\ found_files = <<>>
    /\ fs = [p \in Paths \cup ExtraPaths |-> IF p \in Paths THEN 1 ELSE 0]
    /\ snaps = [t \in 1..MaxClock |-> NoSnap]
    /\ clock = 1
    /\ ev = NoEvent
    /\ last = [NoOp EXCEPT !.op = "init"]

NextDog ==
    \/ \E d \in DogDirs, failure \in StartFailures : start(d, failure)
    \/ \E d \in DogDirs : stop(d)

SpecDog == InitDog /\ [][NextDog]_vars

(***************************************************************************)
(* SpecLoad: starts from a data file that was damaged between two runs.    *)
(***************************************************************************)
NextLoad ==
    \/ \E p \in {FileA, FileB} : add_file(p, {dirname(p)}) /\ file_counter' <= MaxWatched
    \/ \E id \in file_tree : remove_file(id, TRUE)
    \/ choose_backup_dir(BackupRoot)
    \/ toggle_auto_backup
    \/ on_quit
    \/ \E kind \in DataKinds \ {"ok"} : Corrupt(kind)
    \/ Start(WatchDirs)

SpecLoad == Init /\ [][NextLoad]_vars

(***************************************************************************)
(* SpecCopy: FileHandler.copy_file from s, on every disk that hangs        *)
(* together.                                                               *)
(***************************************************************************)
InitCopy ==
    /\ managed_files = <<>>
    /\ file_counter = 0
    /\ file_tree = {}
    /\ backup_dir = ""
    /\ auto_backup_enabled = TRUE
    /\ file_watchdogs = {}
    /\ observers = [d \in WatchDirs |-> 0]
    /\ data_file = NoData
    /\ phase = "running"
    /\ found_files = <<>>
    /\ fs \in {disk \in [CopyPaths -> {Dir} \cup 0..MaxContent] :
                  /\ Consistent(disk)
                  /\ disk[CopyTS] # Dir /\ disk[CopyNT] # Dir}
    /\ snaps = [t \in 1..MaxClock |-> NoSnap]
    /\ clock = 1
    /\ ev = NoEvent
    /\ last = [NoOp EXCEPT !.op = "init"]

NextCopy == \E dst \in CopyDsts, overwrite \in BOOLEAN : copy(CopyS, dst, overwrite)

SpecCopy == InitCopy /\ [][NextCopy]_vars

(***************************************************************************)
(* SpecList: snapshots taken at different seconds, and the backup root     *)
(* holding entries that no capture made.                                   *)
(***************************************************************************)
NextList ==
    \/ add_file(FileA, {dirname(FileA)})
    \/ choose_backup_dir(BackupRoot)
    \/ \E in \in CaptureInputs(Len(managed_files)) : backup_all(in)
    \/ \E in \in RestoreInputs : restore_files(in.selected, in.ok, in.fail)
    \/ Tick
    \/ \E n \in ExtraNames, c \in {0, 1} : WriteFile(ExtraPath(n), c)

SpecList == Init /\ [][NextList]_vars

(***************************************************************************)
(* SpecScan: the scan on every tree of at most MaxPresent files below      *)
(* ScanRoot, with nothing tracked or the file of the app directory tracked *)
(* already.                                                                *)
(***************************************************************************)
InitScan ==
    /\ \E tracked \in {<<>>, <<[id |-> 0, path |-> DeepFile(2)]>>} :
           /\ managed_files = tracked
           /\ file_counter = Len(tracked)
           /\ file_tree = Keys(tracked)
    /\ backup_dir = ""
    /\ auto_backup_enabled = TRUE
    /\ file_watchdogs = {}
    /\ observers = [d \in WatchDirs |-> 0]
    /\ data_file = NoData
    /\ phase = "running"
    /\ found_files = <<>>
    /\ \E present \in SUBSET ScanFiles :
           /\ Cardinality(present) <= MaxPresent
           /\ fs = [p \in ScanFiles |-> IF p \in present THEN 1 ELSE 0]
    /\ snaps = [t \in 1..MaxClock |-> NoSnap]
    /\ clock = 1
    /\ ev = NoEvent
    /\ last = [NoOp EXCEPT !.op = "init"]

NextScan ==
    \/ \E ui \in ScanInputs : auto_detect(ui)
    \/ cancel_dialog

SpecScan == InitScan /\ [][NextScan]_vars

(***************************************************************************)
(* The claims.                                                             *)
(***************************************************************************)

\* C1: after any sequence of registry operations (manual add, adding the
\* files ticked in a scan result, remove, load of the persisted state) no
\* two ids of the Registry map to the same path.
C1_NoDuplicatePaths ==
    \A i, j \in 1..Len(managed_files) :
        i # j => managed_files[i].path # managed_files[j].path

\* C2: a capture made by the notification handler is a capture of the
\* notified path alone, that path is in the Registry when the capture is
\* made, and the handler read the auto-backup flag as enabled; a notification
\* handled while the flag is disabled starts no handler and so no capture.
C2_CaptureOnlyIfTrackedAndEnabled ==
    /\ last.op = "backup_single" =>
           /\ ev.active /\ ev.flag
           /\ last.files = <<ev.path>>
           /\ ev.path \in Values(managed_files)
    /\ ev.active => ev.flag
    /\ (last.op = "on_event" /\ last.outcome = "Ignored") =>
           ~auto_backup_enabled /\ ~ev.active

C2_Witness ==
    /\ last.op = "backup_single" /\ last.outcome = "Ok"
    /\ ev.calls = 1
    /\ \E i \in 1..Len(managed_files) : managed_files[i].path # ev.path

\* C3: a notification for a tracked path P, handled while auto-backup is
\* enabled and with the Registry left alone meanwhile, makes exactly one
\* capture call.
C3_ExactlyOneCapture ==
    (/\ last.op = "on_event" /\ last.outcome = "Done" /\ last.quiet
     /\ last.path \in Values(managed_files))
        => last.calls = 1

\* C4: no directory ever has more than one open watch, and while the program
\* runs an operation leaves the subscription of a directory that has one as
\* it is: it stays in the subscription set and no second watch is opened.
C4_OneWatchPerDirectory ==
    [][/\ \A d \in WatchDirs : observers'[d] <= 1
       /\ \A d \in WatchDirs :
              (d \in file_watchdogs /\ phase # "quit" /\ phase' # "quit")
                  => (d \in file_watchdogs' /\ observers'[d] = observers[d])]_vars

C4_Witness ==
    /\ last.op = "add_file" /\ last.outcome = "Added" /\ last.had_watch
    /\ Len(managed_files) >= 2
    /\ observers[dirname(last.path)] = 1

Existing(files, f) == SelectSeq(files, LAMBDA p : f[p] # 0)

\* the content a capture that copied `copied` leaves under name n in a
\* directory that held `before`: that of the last copied file named n
Captured(copied, f, before, n) ==
    LET I == {i \in 1..Len(copied) : basename(copied[i]) = n}
    IN  IF I = {} THEN before
        ELSE f[copied[CHOOSE i \in I : \A j \in I : j <= i]]

IsCapture(l) == l.op \in {"backup_all", "backup_single"}

\* no error was injected into the capture l
NoIOError(l, f) ==
    /\ ~l.mkdir_fails
    /\ l.fail_at = 0 \/ f[l.files[l.fail_at]] = 0

\* C6 as stated: a capture called while the backup root is unset ends
\* BackupRootUnset, creates no snapshot directory and copies no file.
C6_UnsetRootFails ==
    [][(IsCapture(last') /\ backup_dir = "")
          => (last'.outcome = "BackupRootUnset" /\ snaps' = snaps)]_vars

\* C6 amended: a capture of a non-empty file list called while the backup
\* root is unset, and left unset by the prompt the call raises, ends
\* BackupRootUnset; an empty list ends NoFiles; and whenever the root is
\* still unset after the call, no directory was created and no file copied.
C6_UnsetRootCreatesNothing ==
    [][(IsCapture(last') /\ backup_dir = "")
          => /\ last'.files = <<>> => last'.outcome = "NoFiles"
             /\ (last'.files # <<>> /\ backup_dir' = "")
                    => last'.outcome = "BackupRootUnset"
             /\ last'.outcome = "BackupRootUnset" => backup_dir' = ""
             /\ backup_dir' = ""
                    => (snaps' = snaps /\ last'.copied = <<>> /\ last'.count = 0)]_vars

C6_Witness ==
    /\ IsCapture(last) /\ last.outcome = "BackupRootUnset"
    /\ last.files # <<>> /\ \A i \in 1..Len(last.files) : fs[last.files[i]] # 0
    /\ backup_dir = ""
    /\ \A t \in DOMAIN snaps : ~snaps[t].exists

\* C7 as stated: a capture with a set backup root, no I/O error occurring,
\* creates the snapshot directory, copies exactly the listed files that
\* exist and reports their number.
C7_CaptureCopiesExisting ==
    [][(IsCapture(last') /\ backup_dir # "" /\ NoIOError(last', fs))
          => /\ snaps'[clock].exists
             /\ last'.copied = Existing(last'.files, fs)
             /\ last'.count = Len(Existing(last'.files, fs))]_vars

\* C7 amended: the same for a non-empty file list; the directory then holds,
\* under each copied file's name, the content of that file, and is otherwise
\* as it was.
C7_NonEmptyCaptureCopiesExisting ==
    [][(IsCapture(last') /\ backup_dir # "" /\ last'.files # <<>>
            /\ NoIOError(last', fs))
          => /\ last'.outcome = "Ok"
             /\ snaps'[clock].exists
             /\ last'.copied = Existing(last'.files, fs)
             /\ last'.count = Len(Existing(last'.files, fs))
             /\ \A n \in FNames :
                    snaps'[clock].files[n] =
                        Captured(Existing(last'.files, fs), fs, snaps[clock].files[n], n)
             /\ \A t \in DOMAIN snaps : t # clock => snaps'[t] = snaps[t]]_vars

C7_Witness ==
    /\ last.op = "backup_all" /\ last.outcome = "Ok"
    /\ Len(last.files) = 2 /\ last.count = 1
    /\ fs[last.files[1]] # 0 /\ fs[last.files[2]] = 0
    /\ last.copied = <<last.files[1]>>
    /\ snaps[clock].exists
    /\ snaps[clock].files[basename(last.files[1])] = fs[last.files[1]]
    /\ snaps[clock].files[basename(last.files[2])] = 0

\* C8: when the copy of the file at position k fails, the capture ends
\* IOFailure, the files copied are exactly the existing ones listed before
\* k, each of them is in the snapshot directory, and nothing listed from k
\* on has been written.
C8_CaptureFailsFast ==
    [][(IsCapture(last') /\ backup_dir' # "" /\ ~last'.mkdir_fails
            /\ last'.fail_at > 0 /\ fs[last'.files[last'.fail_at]] # 0)
          => LET before == SubSeq(last'.files, 1, last'.fail_at - 1)
             IN  /\ last'.outcome = "IOFailure"
                 /\ last'.copied = Existing(before, fs)
                 /\ snaps'[clock].exists
                 /\ \A n \in FNames :
                        snaps'[clock].files[n] =
                            Captured(Existing(before, fs), fs, snaps[clock].files[n], n)]_vars

C8_Witness ==
    /\ last.op = "backup_all" /\ last.outcome = "IOFailure"
    /\ last.fail_at = 2 /\ fs[last.files[2]] # 0
    /\ last.copied = <<last.files[1]>>
    /\ snaps[clock].files[basename(last.files[1])] = fs[last.files[1]]
    /\ snaps[clock].files[basename(last.files[2])] = 0

\* the destination restore_files has for file name n: the path of the
\* tracked file the target mapping gives for n
Target(d, n) == Get(d, name_to_id(d)[n])

\* the names restore matches: in the snapshot, and a key of the mapping
Matching(snap, d) == {n \in FNames : snap.files[n] # 0 /\ n \in NameKeys(d)}

\* C9: a restore writes the snapshot's content to exactly the destinations
\* of the names that are both in the chosen snapshot and keys of the target
\* mapping (and whose copy did not fail), whatever those destinations held;
\* every other file, the snapshots and the Registry are as they were, and
\* the count is the number of files written.
C9_RestoreFrame ==
    [][(last'.op = "restore_files" /\ last'.outcome = "Done")
          => LET snap == snaps[last'.sel]
                 done == Matching(snap, managed_files) \ last'.fail_in
             IN  /\ \A p \in Paths :
                        fs'[p] = IF \E n \in done : Target(managed_files, n) = p
                                 THEN snap.files[CHOOSE n \in done :
                                                     Target(managed_files, n) = p]
                                 ELSE fs[p]
                 /\ last'.count = Cardinality(done)
                 /\ UNCHANGED <<snaps, managed_files>>]_vars

C9_Witness ==
    /\ last.op = "restore_files" /\ last.outcome = "Done" /\ last.count = 1
    /\ snaps[last.sel].files["a.json"] # 0 /\ snaps[last.sel].files["b.json"] # 0
    /\ NameKeys(managed_files) = {"a.json"}
    /\ fs[FileB] # snaps[last.sel].files["b.json"]
    /\ last.copied = <<FileA>> /\ fs[FileA] = snaps[last.sel].files["a.json"]

\* C10: in a restore where the copy of some matching file fails, every
\* other matching file is restored, the failing files keep their content,
\* are not counted and are each reported.
C10_RestoreContinues ==
    [][(last'.op = "restore_files" /\ last'.outcome = "Done")
          => LET snap == snaps[last'.sel]
                 match == Matching(snap, managed_files)
                 bad == match \cap last'.fail_in
             IN  /\ \A n \in match \ bad :
                        fs'[Target(managed_files, n)] = snap.files[n]
                 /\ \A n \in bad :
                        fs'[Target(managed_files, n)] = fs[Target(managed_files, n)]
                 /\ last'.count = Cardinality(match \ bad)
                 /\ last'.failed = bad]_vars

C10_Witness ==
    /\ last.op = "restore_files" /\ last.outcome = "Done"
    /\ Cardinality(last.failed) = 1 /\ last.count = 1
    /\ \E n \in FNames \ last.failed :
          /\ n \in NameKeys(managed_files)
          /\ fs[Target(managed_files, n)] = snaps[last.sel].files[n]
    /\ \E n \in last.failed :
          fs[Target(managed_files, n)] # snaps[last.sel].files[n]

IsScan(l) == l.op = "auto_detect"

\* d's path, lower-cased, contains app_name/subdir for a configured subdir
InAppDir(cfg, d) ==
    \E i \in 1..Len(cfg.subdirectories) :
        Contains(Lower(PathString(d)),
                 Lower(Chars(cfg.app_name) \o <<"/">> \o Chars(cfg.subdirectories[i])))

\* name ends as the pattern "*<suffix>" asks
FitsPattern(pattern, name) ==
    LET suffix == Tail(Chars(pattern))
        n == Chars(name)
    IN  /\ Head(Chars(pattern)) = "*"
        /\ Len(n) >= Len(suffix)
        /\ SubSeq(n, Len(n) - Len(suffix) + 1, Len(n)) = suffix

\* the depth of directory d below the search root
DepthBelowRoot(d) == Len(d) - Len(ScanRoot)

\* a component of d below the search root has a name that contains an
\* exclude pattern, compared in lower case
UnderExcluded(cfg, d) ==
    \E n \in (Len(ScanRoot) + 1)..Len(d) :
        \E i \in 1..Len(cfg.exclude_patterns) :
            Contains(Lower(Chars(d[n])), Lower(Chars(cfg.exclude_patterns[i])))

\* the file f, present and untracked, is one a scan for AppX may return
Findable(f) ==
    /\ last.cfg.app_name = "AppX"
    /\ fs[f] # 0
    /\ f \notin Values(managed_files)

\* C11: a scan with an empty app_name ends ConfigurationError, visits no
\* directory, returns no candidate and opens no results dialog.
C11_EmptyAppNameRejected ==
    (IsScan(last) /\ last.cfg.app_name = "")
        => /\ last.outcome = "ConfigurationError"
           /\ last.visited = <<>>
           /\ last.files = <<>>
           /\ found_files = <<>> /\ phase = "running"

C11_Witness ==
    /\ IsScan(last) /\ last.cfg.app_name = ""
    /\ last.outcome = "ConfigurationError"
    /\ fs[DeepFile(2)] # 0 /\ managed_files = <<>>

\* C12: every path a scan returns is a file on disk in a directory whose
\* lower-cased path contains app_name/subdir, with a name that matches a
\* file pattern, and not tracked; the file AppX/user/s.json two levels below
\* the root is returned, the file of the sibling directory never.
C12_ScanReturnsMatches ==
    IsScan(last)
        => /\ \A i \in 1..Len(last.files) :
                  LET f == last.files[i]
                  IN  /\ f \in ScanFiles /\ fs[f] # 0
                      /\ InAppDir(last.cfg, dirname(f))
                      /\ \E j \in 1..Len(last.cfg.file_patterns) :
                             FitsPattern(last.cfg.file_patterns[j], basename(f))
                      /\ f \notin Values(managed_files)
           /\ Findable(DeepFile(2)) => DeepFile(2) \in SeqRange(last.files)
           /\ OtherFile \notin SeqRange(last.files)

C12_Witness ==
    /\ IsScan(last) /\ last.outcome = "Found"
    /\ fs[OtherFile] # 0 /\ fs[TextFile] # 0
    /\ last.cfg.file_patterns = <<"*.json">>
    /\ last.files = <<DeepFile(2)>>

\* C13: a scan visits no directory at or below a subdirectory whose name
\* contains an exclude pattern (in lower case), and returns no file from
\* there.
C13_ExcludedNeverDescended ==
    IsScan(last)
        => /\ \A i \in 1..Len(last.visited) : ~UnderExcluded(last.cfg, last.visited[i])
           /\ \A i \in 1..Len(last.files) :
                  ~UnderExcluded(last.cfg, dirname(last.files[i]))

C13_Witness ==
    /\ IsScan(last) /\ last.cfg.exclude_patterns = <<"cache">>
    /\ fs[CachedFile] # 0 /\ fs[CachedApp] # 0 /\ fs[DeepFile(2)] # 0
    /\ managed_files = <<>>
    /\ last.files = <<DeepFile(2)>>

\* C14 as stated: no directory deeper than 5 below the search root is
\* visited and no file in a directory at depth 6 or more is returned, while
\* a matching file at depth 4 inside the app directory is.
C14_DepthCapFive ==
    IsScan(last)
        => /\ \A i \in 1..Len(last.visited) : DepthBelowRoot(last.visited[i]) <= 5
           /\ \A i \in 1..Len(last.files) : DepthBelowRoot(dirname(last.files[i])) < 6
           /\ Findable(DeepFile(4)) => DeepFile(4) \in SeqRange(last.files)

\* C14 amended: descent stops at a directory deeper than 5, so that a
\* directory at depth 6 inside the app directory is still visited and its
\* matching files are returned; no directory at depth 7 or more is visited
\* and no file from there is returned; a matching file at depth 4 inside
\* the app directory is returned.
C14_DescentStopsBelowSix ==
    IsScan(last)
        => /\ \A i \in 1..Len(last.visited) : DepthBelowRoot(last.visited[i]) <= 6
           /\ \A i \in 1..Len(last.files) : DepthBelowRoot(dirname(last.files[i])) <= 6
           /\ \A k \in 7..MaxScanDepth : DeepFile(k) \notin SeqRange(last.files)
           /\ \A k \in {4, 5, 6} :
                  Findable(DeepFile(k)) => DeepFile(k) \in SeqRange(last.files)

C14_Witness ==
    /\ IsScan(last)
    /\ fs[DeepFile(4)] # 0 /\ fs[DeepFile(6)] # 0 /\ fs[DeepFile(7)] # 0
    /\ SeqRange(last.files) = {DeepFile(4), DeepFile(6)}

\* C15: shutdown stops every open watch, so that once the program has quit
\* no watch is open, and a shutdown that has begun is never left waiting
\* for a watch's thread that cannot end: either the handler in flight can
\* take its next step or on_quit can finish.
C15_ShutdownStopsAndCompletes ==
    /\ phase = "quit" => \A d \in WatchDirs : observers[d] = 0
    /\ phase = "quitting" =>
           \/ ENABLED (\E in \in CaptureInputs(1) : HandlerStep(in))
           \/ ENABLED on_quit

\* s is "ConfigBackup_" followed by a timestamp YYYY-MM-DD_HH-MM-SS
IsSnapshotName(s) ==
    /\ Len(s) = 32
    /\ SubSeq(s, 1, 13) = Chars("ConfigBackup_")
    /\ \A i \in 14..32 :
           IF i \in {18, 21, 27, 30} THEN s[i] = "-"
           ELSE IF i = 24 THEN s[i] = "_"
           ELSE \E n \in 0..9 : s[i] = Digit(n)

\* C16: the backups a restore lists are exactly the entries of the backup
\* root named ConfigBackup_<YYYY-MM-DD_HH-MM-SS>.
C16_ListOnlySnapshots ==
    (last.op = "restore_files" /\ last.outcome # "NoBackupDir")
        => last.candidates = {d \in RootEntries(snaps, fs) : IsSnapshotName(d)}

\* the code of a character of a snapshot name
Ord(c) ==
    CASE c = "-" -> 45 [] c = "_" -> 95
      [] c = "0" -> 48 [] c = "1" -> 49 [] c = "2" -> 50 [] c = "3" -> 51
      [] c = "4" -> 52 [] c = "5" -> 53 [] c = "6" -> 54 [] c = "7" -> 55
      [] c = "8" -> 56 [] c = "9" -> 57
      [] c = "B" -> 66 [] c = "C" -> 67 [] c = "a" -> 97 [] c = "c" -> 99
      [] c = "f" -> 102 [] c = "g" -> 103 [] c = "i" -> 105 [] c = "k" -> 107
      [] c = "n" -> 110 [] c = "o" -> 111 [] c = "p" -> 112 [] c = "u" -> 117

\* a < b as Python compares strings
RECURSIVE StrLess(_, _)
StrLess(a, b) ==
    IF b = <<>> THEN FALSE
    ELSE IF a = <<>> THEN TRUE
    ELSE IF Head(a) = Head(b) THEN StrLess(Tail(a), Tail(b))
    ELSE Ord(Head(a)) < Ord(Head(b))

\* C17: of two snapshots made at different clock seconds the later one has
\* the greater name, so the snapshot of the latest second has the greatest
\* name of all.
C17_NamesOrderByTime ==
    \A t1, t2 \in DOMAIN snaps :
        (snaps[t1].exists /\ snaps[t2].exists /\ Instant(t1) < Instant(t2))
            => StrLess(SnapshotName(t1), SnapshotName(t2))

C17_Witness ==
    /\ last.op = "backup_all" /\ last.outcome = "Ok" /\ clock > 1
    /\ \A t \in 1..clock : snaps[t].exists
    /\ IsSnapshotName(SnapshotName(clock))

\* C18: a start from a missing or corrupt data file leaves the Registry
\* empty, the backup directory empty and auto-backup enabled.
C18_LoadResetsToDefaults ==
    (last.op = "init" /\ data_file.kind # "ok")
        => (managed_files = <<>> /\ backup_dir = "" /\ auto_backup_enabled)

\* C19: copy(src, dst, overwrite) fails with SourceMissing when src is not
\* an existing file and with DestinationExists when dst exists and overwrite
\* is false, changing nothing on disk; otherwise the parents of dst exist
\* afterwards, dst holds the content of src and src is unchanged.
C19_CopyContract ==
    last.op = "copy_file" =>
        LET src == last.path
            dst == last.dst
            before == last.before
        IN  IF before[src] <= 0
            THEN last.outcome = "SourceMissing" /\ fs = before
            ELSE IF before[dst] # 0 /\ ~last.overwrite
                 THEN last.outcome = "DestinationExists" /\ fs = before
            ELSE /\ is_dir(fs, Parent(dst))
                 /\ fs[dst] = before[src]
                 /\ fs[src] = before[src]

\* C19 (amended): as C19, the last part for a dst that is not an existing
\* directory and whose parent is not an existing file.
C19_CopyContractOnFiles ==
    last.op = "copy_file" =>
        LET src == last.path
            dst == last.dst
            before == last.before
        IN  IF before[src] <= 0
            THEN last.outcome = "SourceMissing" /\ fs = before
            ELSE IF before[dst] # 0 /\ ~last.overwrite
                 THEN last.outcome = "DestinationExists" /\ fs = before
            ELSE (~is_dir(before, dst) /\ ~is_file(before, Parent(dst)))
                     => /\ is_dir(fs, Parent(dst))
                        /\ fs[dst] = before[src]
                        /\ fs[src] = before[src]

\* a copy that made the missing parent of dst
C19_Witness ==
    /\ last.op = "copy_file" /\ last.outcome = "" /\ last.dst = CopyNT
    /\ last.before[CopyN] = 0 /\ fs[CopyN] = Dir
    /\ fs[CopyNT] = last.before[CopyS] /\ fs[CopyS] = last.before[CopyS]

\* C20: a notification handler iterates the Registry as it was when the
\* handler was entered: the entry it reads next is that snapshot's entry,
\* and the iteration never fails because a file was added or removed
\* meanwhile.
C20_HandlerIteratesSnapshot ==
    /\ ~(last.op = "on_event" /\ last.outcome = "RuntimeError")
    /\ (ev.active /\ Len(managed_files) = ev.used /\ ev.pos <= Len(managed_files))
           => managed_files[ev.pos] = ev.reg[ev.pos]

\* the names a capture wrote into its snapshot directory
WrittenNames(copied) == {basename(copied[i]) : i \in 1..Len(copied)}

\* C21: a capture that lands in the directory of a second in which an
\* earlier capture already made that directory writes only filenames that
\* are not yet in it, and does not fail because the directory exists.
C21_SameSecondCapturesDisjoint ==
    [][(/\ last'.op \in {"backup_all", "backup_single"}
        /\ ~last'.mkdir_fails
        /\ last'.outcome \in {"Ok", "IOFailure"}
        /\ snaps[clock].exists)
           => /\ (last'.fail_at = 0 => last'.outcome = "Ok")
              /\ \A n \in WrittenNames(last'.copied) : snaps[clock].files[n] = 0]_vars

\* C22: no capture and no restore changes an existing snapshot: what a
\* snapshot directory holds stays as it is.
C22_SnapshotImmutable ==
    [][\A t \in DOMAIN snaps : snaps[t].exists => snaps'[t] = snaps[t]]_vars

\* C23: a scan returns no file of a directory that is no app directory;
\* below such a directory deeper than 3 nothing is visited; below such a
\* directory at depth 3 or less every subdirectory without an excluded name
\* is visited, so that an app directory further down is found.
C23_OutsideAppDirectory ==
    (IsScan(last) /\ last.outcome # "ConfigurationError")
        => /\ \A i \in 1..Len(last.files) : InAppDir(last.cfg, dirname(last.files[i]))
           /\ \A i \in 1..Len(last.visited) :
                  LET d == last.visited[i]
                  IN  (d # ScanRoot /\ ~InAppDir(last.cfg, dirname(d)))
                          => DepthBelowRoot(dirname(d)) <= 3
           /\ \A d \in ScanDirs \ {ScanRoot} :
                  (/\ dirname(d) \in SeqRange(last.visited)
                   /\ ~InAppDir(last.cfg, dirname(d))
                   /\ DepthBelowRoot(dirname(d)) <= 3
                   /\ ~UnderExcluded(last.cfg, d))
                      => d \in SeqRange(last.visited)
           /\ Findable(FarFile(2)) => FarFile(2) \in SeqRange(last.files)
           /\ FarFile(3) \notin SeqRange(last.files)

C23_Witness ==
    /\ IsScan(last) /\ last.outcome = "Found"
    /\ fs[FarFile(2)] # 0 /\ fs[FarFile(3)] # 0 /\ fs[OtherFile] # 0
    /\ last.files = <<FarFile(2)>>
    /\ dirname(dirname(FarFile(3))) \in SeqRange(last.visited)
    /\ dirname(FarFile(3)) \notin SeqRange(last.visited)

\* C24: a remove leaves every watch subscription as it is, also that of a
\* directory whose last tracked file it removes; a subscription is closed
\* by shutdown alone.
C24_RemoveKeepsWatches ==
    [][/\ last'.op = "remove_file"
              => (file_watchdogs' = file_watchdogs /\ observers' = observers)
       /\ (\E d \in WatchDirs : observers'[d] < observers[d])
              => (last'.op = "on_quit" /\ phase' = "quit")]_vars

C24_Witness ==
    /\ last.op = "remove_file" /\ last.outcome = "Removed"
    /\ \A p \in Values(managed_files) : dirname(p) # dirname(last.path)
    /\ dirname(last.path) \in file_watchdogs
    /\ observers[dirname(last.path)] = 1
    /\ phase = "running"

\* C25: every tracked file a restore writes gets content that the chosen
\* snapshot captured from that same file.
C25_RestoreFromOwnCapture ==
    (last.op = "restore_files" /\ last.outcome = "Done")
        => \A i \in 1..Len(last.copied) :
               snaps[last.sel].origin[basename(last.copied[i])] = last.copied[i]

\* no notification is queued and no handler is running
Quiescent == ~ev.active /\ \A p \in BurstPaths : ev.pending[p] = 0

\* the seconds whose snapshot holds a file of name n
SnapshotsWith(n) == {t \in DOMAIN snaps : snaps[t].exists /\ snaps[t].files[n] # 0}

\* C26: with auto-backup enabled and the backup root set, once the
\* notifications of a burst on a tracked file P are all handled, the most
\* recent snapshot that holds P's filename holds P's content.
C26_FinalContentBackedUp ==
    \A P \in BurstPaths :
        (/\ Quiescent /\ auto_backup_enabled /\ backup_dir # ""
         /\ P \in Values(managed_files) /\ P \in ev.written)
            => /\ SnapshotsWith(basename(P)) # {}
               /\ \A t \in SnapshotsWith(basename(P)) :
                      (\A u \in SnapshotsWith(basename(P)) : u <= t)
                          => snaps[t].files[basename(P)] = fs[P]

\* d2 holds every entry of d1 unchanged and n entries more
GrowsBy(d1, d2, n) ==
    /\ Len(d2) = Len(d1) + n
    /\ \A i \in 1..Len(d1) : d2[i] = d1[i]
    /\ \A i, j \in 1..Len(d2) : i # j => d2[i].id # d2[j].id

\* C27: an add gives an id that is not in the Registry, keeps every entry
\* and grows the Registry by one (adding n selected files: by n); the id
\* counter never decreases, a start that loads the saved state included.
C27_FreshIds ==
    [][/\ (last'.op = "add_file" /\ last'.outcome \in {"Added", "TclError"})
              => /\ last'.id \notin Keys(managed_files)
                 /\ GrowsBy(managed_files, managed_files', 1)
       /\ last'.op = "add_selected"
              => GrowsBy(managed_files, managed_files',
                         file_counter' - file_counter)
       /\ file_counter' >= file_counter]_vars

\* a start that read back a counter greater than the number of entries
C27_Witness ==
    /\ last.op = "init" /\ data_file.kind = "ok"
    /\ managed_files # <<>>
    /\ file_counter > Len(managed_files)
    /\ \E i \in 1..Len(managed_files) : managed_files[i].id = file_counter - 1

\* C28: a FileWatchdog holds an observer only while it is running, start on
\* a running watchdog and stop on one that is not running raise and change
\* nothing, and after a start that failed the watchdog is not running and
\* can be started again.
C28_ObserverOnlyWhileRunning ==
    /\ \A d \in DogDirs : d \in file_watchdogs => is_running(d)
    /\ (last.op = "start" /\ last.outcome = "OSError")
           => (~is_running(last.path) /\ last.path \notin file_watchdogs)
    /\ (last.op \in {"start", "stop"} /\ last.outcome = "RuntimeError")
           => (last.op = "start") = is_running(last.path)

====
